---- MODULE Spec2Model ----
(***************************************************************************)
(* Armature / bone classification of the NIF importer                      *)
(* (io_scene_nif/modules/armature/armature_import.py, class Armature).     *)
(*                                                                         *)
(* The NIF node graph is an input: a tree of blocks whose spatial nodes    *)
(* are numbered in depth-first (get_refs) order.  The state of the program *)
(* is Armature.dict_armatures together with the position of the recursive  *)
(* traversal mark_armatures_bones.  Data of the file that the code reads   *)
(* only at some point of the traversal (a skin descriptor, the bones of    *)
(* the selected Blender armature) is drawn when it is first read and kept  *)
(* from then on.                                                           *)
(***************************************************************************)
EXTENDS Integers, Sequences, FiniteSets, TLC

\* ---------------------------------------------------------------- bounds
MaxNodes == 5        \* spatial nodes of the graph
MaxRefs == 3         \* references the inputs hold in all: the skeleton root
                     \* and the bone list entries of every skin descriptor,
                     \* the selected armature and its bones
PolicyNodes == 3     \* spatial nodes of the graphs every setting is tried on
MaxRuns == 2         \* top-level calls of mark_armatures_bones

\* ------------------------------------------------------------- constants
None == 0                    \* Python None / a null reference
VER_MORROWIND == 67108866    \* 0x04000002
VER_OBLIVION == 335544325    \* 0x14000005
VER_FALLOUT3 == 335675399    \* 0x14020007

Nodes == 1..MaxNodes

\* NifFormat classes of the blocks of the model
NodeKinds == {"NiNode", "NiLODNode", "NiTriShape"}

VARIABLES
    numNodes,        \* number of spatial nodes of the graph
    parent,          \* block._parent, None for the root
    kind,            \* class of each node
    skinned,         \* geometries with a skin instance (is_skin())
    grouping,        \* nodes the host classifies as grouping nodes
    skin,            \* skin descriptors read so far: geometry -> [root, bones]
    props,           \* NifOp.props / data.version, << >> before the import
    arm_name,        \* name of selected_objects[0], "" while not read
    arm_bones,       \* keys of its data.bones read so far
    dict_names,      \* nif_import.dict_names
    dict_armatures,  \* Armature.dict_armatures
    pc,              \* position of the traversal
    todo,            \* blocks the pending loops over get_refs() still hold
    niBlock,         \* argument of the running call
    skelroot,        \* local of the running call
    b_armature_obj,  \* TRUE when the running call has bound that local
    err,             \* exception that ended the last call, "none" otherwise
    runs,            \* top-level calls made so far
    n_armature,      \* armature root given to import_armature, None before
    n_heads,         \* translation of each node's bind matrix relative to it
    edit_bones,      \* b_armature_data.edit_bones, in the order of creation
    visited,         \* blocks mark_armatures_bones was called on, in order,
                     \* since the last top-level call
    bhkshape,        \* shape given to import_bhk_shape
    user_version,    \* data._user_version_value_, data._user_version_2_value_
    HAVOK_SCALE,     \* bhkshape_import.HAVOK_SCALE, in units of the importer's
    havok_mat,       \* bhkshape_import.havok_mat, "unset" while not assigned
    dict_havok_objects,  \* nif_import.dict_havok_objects, as pairs
    hk_objects,      \* list import_bhk_shape returned
    hk_err,          \* exception that ended import_bhk_shape, "none" otherwise
    hk_pc            \* "idle" before the call, "done" or "failed" after it

graph == <<numNodes, parent, kind, skinned, grouping>>
vars == <<numNodes, parent, kind, skinned, grouping, skin, props, arm_name,
          arm_bones, dict_names, dict_armatures, pc, todo, niBlock, skelroot,
          b_armature_obj, err, runs, n_armature, n_heads, edit_bones,
          visited, bhkshape, user_version, HAVOK_SCALE, havok_mat,
          dict_havok_objects, hk_objects, hk_err, hk_pc>>
collision == <<bhkshape, user_version, HAVOK_SCALE, havok_mat,
               dict_havok_objects, hk_objects, hk_err, hk_pc>>
armature == <<n_armature, n_heads, edit_bones>>

\* ---------------------------------------------------------- the node graph
\* n is a or an ancestor of a (following par)
RECURSIVE IsAncOrSelf(_, _, _)
IsAncOrSelf(par, n, a) ==
    IF a = None THEN FALSE
    ELSE IF a = n THEN TRUE
    ELSE IsAncOrSelf(par, n, par[a])

\* Depth-first numbering: the parent of node i is node i-1 or one of its
\* ancestors; the nodes beyond numNodes do not exist.
TreeShape(n, par) ==
    /\ par[1] = None
    /\ \A i \in 2..MaxNodes :
          IF i <= n THEN par[i] # None /\ IsAncOrSelf(par, par[i], i - 1)
          ELSE par[i] = None

IsNiNode(k) == k \in {"NiNode", "NiLODNode"}          \* isinstance(b, NiNode)

ChildSet(n, par, b) == {c \in 2..n : par[c] = b}

KindsOk(n, par, k) ==
    \A i \in Nodes :
        /\ (i > n) => k[i] = "NiNode"
        /\ (i <= n /\ ChildSet(n, par, i) # {}) => IsNiNode(k[i])


\* ----------------------------------------------------------------- names
\* block.name of the spatial nodes (every node has its own name)
NodeName(b) ==
    <<"Scene Root", "Bip01", "Bip01 L Arm", "Bip01 R Arm", "Bip01 Tail",
      "Bone", "Bone.001", "Bone.002">>[b]

\* The name Blender gives the bone imported from node b
BlenderName(b) ==
    <<"Scene Root", "Bip01", "Bip01 Arm.L", "Bip01 Arm.R", "Bip01 Tail",
      "Bone", "Bone.001", "Bone.002">>[b]

\* armature.get_bone_name_for_nif: 'Bip01 xxx.L' becomes 'Bip01 L xxx'
get_bone_name_for_nif(name) ==
    CASE name = "Bip01 Arm.L" -> "Bip01 L Arm"
      [] name = "Bip01 Arm.R" -> "Bip01 R Arm"
      [] OTHER -> name

\* Names the selected armature object is drawn from: those of the nodes of
\* the graph, and one that no block carries.
ArmatureNames == {NodeName(b) : b \in 1..numNodes} \cup {"Armature"}

\* os.path.basename(path) and str.lower() on the file names of the model
FilePaths == {"meshes/armor.nif", "meshes/Skeleton.NIF", "skeletonbeast.nif"}
basename(path) ==
    CASE path = "meshes/armor.nif" -> "armor.nif"
      [] path = "meshes/Skeleton.NIF" -> "Skeleton.NIF"
      [] OTHER -> path
lower(s) ==
    CASE s = "Skeleton.NIF" -> "skeleton.nif"
      [] OTHER -> s

\* The operator settings and files of the model
Settings ==
    { [skeleton |-> "EVERYTHING", version |-> VER_OBLIVION, filepath |-> "meshes/armor.nif"],
      [skeleton |-> "GEOMETRY_ONLY", version |-> VER_OBLIVION, filepath |-> "meshes/armor.nif"],
      [skeleton |-> "SKELETON_ONLY", version |-> VER_OBLIVION, filepath |-> "meshes/armor.nif"],
      [skeleton |-> "SKELETON_ONLY", version |-> VER_MORROWIND, filepath |-> "meshes/armor.nif"],
      [skeleton |-> "EVERYTHING", version |-> VER_FALLOUT3, filepath |-> "meshes/Skeleton.NIF"],
      [skeleton |-> "GEOMETRY_ONLY", version |-> VER_OBLIVION, filepath |-> "skeletonbeast.nif"] }

\* Every policy with every version and file
AllSettings ==
    [skeleton : {"EVERYTHING", "GEOMETRY_ONLY", "SKELETON_ONLY"},
     version : {VER_MORROWIND, VER_OBLIVION, VER_FALLOUT3},
     filepath : FilePaths]

\* ------------------------------------------------ the format library's view
IsNode(b) == b \in 1..numNodes                 \* isinstance(b, NiAVObject)
SkinInstOf(g) == MaxNodes + g                  \* the NiSkinInstance block of g
NiNodes == {b \in 1..numNodes : IsNiNode(kind[b])}

RECURSIVE SortedSeq(_)
SortedSeq(S) ==
    IF S = {} THEN << >>
    ELSE LET m == CHOOSE x \in S : \A y \in S : x <= y
         IN <<m>> \o SortedSeq(S \ {m})

\* block.get_refs(): the children of a node, the skin instance of a geometry
get_refs(b) ==
    IF ~IsNode(b) THEN << >>
    ELSE IF b \in skinned THEN <<SkinInstOf(b)>>
    ELSE SortedSeq(ChildSet(numNodes, parent, b))

\* block.tree(): the block, then the tree of each of its references
RECURSIVE tree(_)
RECURSIVE treeOfAll(_)
tree(b) == <<b>> \o treeOfAll(get_refs(b))
treeOfAll(refs) ==
    IF refs = << >> THEN << >>
    ELSE tree(Head(refs)) \o treeOfAll(Tail(refs))

\* block.find(block_name, block_type): first match in depth-first order,
\* None when there is none; block_type "" stands for no type given.
RECURSIVE find(_, _, _)
RECURSIVE findInRefs(_, _, _)
find(b, block_name, block_type) ==
    IF /\ IsNode(b)
       /\ NodeName(b) = block_name
       /\ (block_type = "NiNode" => IsNiNode(kind[b]))
    THEN b
    ELSE findInRefs(get_refs(b), block_name, block_type)
findInRefs(refs, block_name, block_type) ==
    IF refs = << >> THEN None
    ELSE LET blk == find(Head(refs), block_name, block_type)
         IN IF blk # None THEN blk
            ELSE findInRefs(Tail(refs), block_name, block_type)

\* Names the bones of the selected armature are drawn from: those of the
\* nodes below the block found for it, and one that no block carries.
BoneNames(sr) ==
    {BlenderName(b) : b \in {x \in 1..numNodes : IsAncOrSelf(parent, sr, x)}}
        \cup {"Bone.L"}

\* ------------------------------------------------------- dict_armatures
EmptyDict == [k \in {} |-> << >>]
In(x, s) == \E i \in 1..Len(s) : s[i] = x                 \* x in s
DictSet(d, k, v) ==
    [x \in (DOMAIN d) \cup {k} |-> IF x = k THEN v ELSE d[x]]
AppendTo(d, k, x) == DictSet(d, k, Append(d[k], x))

\* nif_import.is_grouping_node(bone)
is_grouping_node(bone) == bone \in grouping

\* populate_bone_tree without the test "bone not in dict_armatures[skelroot]"
RECURSIVE populate_loop_Dup(_, _, _)
populate_loop_Dup(d, sr, blocks) ==
    IF blocks = << >> THEN d
    ELSE LET bone == Head(blocks)
             skip == \/ bone = sr
                     \/ ~(IsNode(bone) /\ IsNiNode(kind[bone]))
                     \/ kind[bone] = "NiLODNode"
                     \/ is_grouping_node(bone)
         IN populate_loop_Dup(IF skip THEN d ELSE AppendTo(d, sr, bone),
                              sr, Tail(blocks))

\* Armature.populate_bone_tree(skelroot), as the dict it leaves
RECURSIVE populate_loop(_, _, _)
populate_loop(d, sr, blocks) ==
    IF blocks = << >> THEN d
    ELSE LET bone == Head(blocks)
             skip == \/ bone = sr
                     \/ ~(IsNode(bone) /\ IsNiNode(kind[bone]))
                     \/ kind[bone] = "NiLODNode"
                     \/ is_grouping_node(bone)
                     \/ In(bone, d[sr])
         IN populate_loop(IF skip THEN d ELSE AppendTo(d, sr, bone),
                          sr, Tail(blocks))
\* populate_bone_tree over the children of skelroot instead of its tree()
populate_bone_tree_Children(d, sr) == populate_loop(d, sr, get_refs(sr))

populate_bone_tree(d, sr) == populate_loop(d, sr, tree(sr))

\* complete_bone_tree marking the parent with insert(0, ...) instead of append
RECURSIVE complete_bone_tree_Insert(_, _, _)
complete_bone_tree_Insert(d, bone, sr) ==
    IF ~(sr \in DOMAIN d /\ In(bone, d[sr]))
    THEN [dict |-> d, err |-> "AssertionError"]
    ELSE IF bone = None
    THEN [dict |-> d, err |-> "AttributeError"]
    ELSE LET boneparent == parent[bone]
         IN IF boneparent # sr
            THEN complete_bone_tree_Insert(
                     IF In(boneparent, d[sr]) THEN d
                     ELSE DictSet(d, sr, <<boneparent>> \o d[sr]),
                     boneparent, sr)
            ELSE [dict |-> d, err |-> "none"]

\* Armature.complete_bone_tree(bone, skelroot): the dict it leaves and the
\* exception that ends it ("none" when it returns)
RECURSIVE complete_bone_tree(_, _, _)
complete_bone_tree(d, bone, sr) ==
    IF ~(sr \in DOMAIN d /\ In(bone, d[sr]))
    THEN [dict |-> d, err |-> "AssertionError"]
    ELSE IF bone = None
    THEN [dict |-> d, err |-> "AttributeError"]          \* None._parent
    ELSE LET boneparent == parent[bone]
         IN IF boneparent # sr
            THEN complete_bone_tree(
                     IF In(boneparent, d[sr]) THEN d
                     ELSE AppendTo(d, sr, boneparent),
                     boneparent, sr)
            ELSE [dict |-> d, err |-> "none"]

\* The condition of the skeleton-only branch without its test of the version
SkeletonPath_AnyVersion ==
    \/ props.skeleton = "SKELETON_ONLY"
    \/ lower(basename(props.filepath)) \in {"skeleton.nif", "skeletonbeast.nif"}

\* The condition of the skeleton-only branch
SkeletonPath ==
    \/ props.skeleton = "SKELETON_ONLY"
    \/ /\ props.version \in {VER_OBLIVION, VER_FALLOUT3}
       /\ lower(basename(props.filepath)) \in {"skeleton.nif", "skeletonbeast.nif"}

\* The condition of the branch that binds the selected armature
BindPath(d) ==
    /\ ~SkeletonPath
    /\ props.skeleton = "GEOMETRY_ONLY"
    /\ DOMAIN d = {}

\* ------------------------------------------------------------ initial state
RECURSIVE SumLen(_, _)
SumLen(f, S) ==
    IF S = {} THEN 0
    ELSE LET x == CHOOSE y \in S : TRUE
         IN Len(f[x].bones) + SumLen(f, S \ {x})

\* References the inputs hold, as far as they are known: the selected
\* armature once it is looked up, the skeleton root of every skinned geometry,
\* the bones read
RefsRead ==
    (IF arm_name = "" THEN 0 ELSE 1) + Cardinality(skinned)
        + Len(arm_bones) + SumLen(skin, Nodes)

NoSkin == [read |-> FALSE, skeleton_root |-> None, bones |-> << >>]

\* Bone lists a skin descriptor can hold: NiNode references, or null entries
RECURSIVE SeqsUpTo(_, _)
SeqsUpTo(S, n) ==
    IF n <= 0 THEN {<< >>}
    ELSE LET shorter == SeqsUpTo(S, n - 1)
         IN shorter \cup {Append(q, x) : q \in shorter, x \in S}

InitFor(settings, n) ==
    /\ props \in settings
    /\ numNodes \in 1..n
    /\ parent \in {par \in [Nodes -> 0..MaxNodes] : TreeShape(numNodes, par)}
    /\ kind \in {k \in [Nodes -> NodeKinds] : KindsOk(numNodes, parent, k)}
    /\ skinned \in SUBSET {g \in 1..numNodes : kind[g] = "NiTriShape"}
    /\ skinned # {} => NiNodes # {}
    /\ Cardinality(skinned) + (IF BindPath(EmptyDict) THEN 1 ELSE 0) <= MaxRefs
    /\ grouping \in SUBSET {b \in 1..numNodes :
                              /\ kind[b] = "NiNode"
                              /\ \E c \in ChildSet(numNodes, parent, b) :
                                    kind[c] = "NiTriShape"}
    /\ skin = [g \in Nodes |-> NoSkin]
    /\ arm_name = ""
    /\ arm_bones = << >>
    /\ dict_names = {}
    /\ dict_armatures = EmptyDict
    /\ pc = "idle"
    /\ todo = << >>
    /\ niBlock = None
    /\ skelroot = None
    /\ b_armature_obj = FALSE
    /\ err = "none"
    /\ runs = 0
    /\ n_armature = None
    /\ n_heads = << >>
    /\ edit_bones = << >>
    /\ visited = << >>

\* bhkshape_import.__init__, and no shape given yet
NoCollision ==
    /\ bhkshape = [type |-> "None", subs |-> << >>, n |-> 0, m |-> 0]
    /\ user_version = <<0, 0>>
    /\ HAVOK_SCALE = 1
    /\ havok_mat = "unset"
    /\ dict_havok_objects = {}
    /\ hk_objects = << >>
    /\ hk_err = "none"
    /\ hk_pc = "idle"

Init == InitFor(Settings, MaxNodes) /\ NoCollision

\* ----------------------------------------------------- mark_armatures_bones
\* The calls that change nothing, run to their end: a block without
\* transform is skipped by the loop over get_refs(); the call on a node that
\* takes neither branch and is no skinned geometry only loops over its own
\* get_refs().  What is left starts with the block of the next call that
\* does something, under the dict d that call will find.
RECURSIVE Advance(_, _)
Advance(t, d) ==
    IF t = << >> THEN << >>
    ELSE LET blk == Head(t)
         IN IF ~IsNode(blk) THEN Advance(Tail(t), d)
            ELSE IF \/ SkeletonPath
                    \/ BindPath(d)
                    \/ (kind[blk] = "NiTriShape" /\ blk \in skinned)
            THEN t
            ELSE Advance(get_refs(blk) \o Tail(t), d)

\* The blocks of the calls that Advance runs to their end, in order
RECURSIVE Called(_, _)
Called(t, d) ==
    IF t = << >> THEN << >>
    ELSE LET blk == Head(t)
         IN IF ~IsNode(blk) THEN Called(Tail(t), d)
            ELSE IF \/ SkeletonPath
                    \/ BindPath(d)
                    \/ (kind[blk] = "NiTriShape" /\ blk \in skinned)
            THEN << >>
            ELSE <<blk>> \o Called(get_refs(blk) \o Tail(t), d)

\* The calls made so far, with the one this step enters: the call on the
\* head of todo, none while the loop over the armature's bones runs, and none
\* yet when a top-level call starts
Entered ==
    CASE pc = "call" -> Append(visited, Head(todo))
      [] pc = "bind" -> visited
      [] OTHER -> << >>

\* The call returns: the caller's loop goes on, or the top-level call is over
Resume(rest) ==
    /\ todo' = Advance(rest, dict_armatures')
    /\ visited' = Entered \o Called(rest, dict_armatures')
    /\ pc' = IF todo' = << >> THEN "idle" ELSE "call"
    /\ niBlock' = None
    /\ skelroot' = None
    /\ b_armature_obj' = FALSE

\* An exception unwinds every pending call
Raise(e) ==
    /\ err' = e
    /\ visited' = Entered
    /\ pc' = "failed"
    /\ todo' = << >>
    /\ niBlock' = None
    /\ skelroot' = None
    /\ b_armature_obj' = FALSE

\* The skeleton-only branch without its test of the root
NotANiNode_Never(blk) == FALSE

\* The lookup of the armature without its test of the result
ArmatureMissing_Never(sr) == FALSE

\* if not isinstance(niBlock, NifFormat.NiNode): the skeleton cannot be imported
NotANiNode(blk) == ~IsNiNode(kind[blk])

\* if not skelroot: the nif has no block with the name of the armature
ArmatureMissing(sr) == sr = None

\* The importer calls mark_armatures_bones(root), before it imports any
\* armature
Start ==
    /\ pc = "idle"
    /\ runs < MaxRuns
    /\ n_armature = None
    /\ runs' = runs + 1
    /\ UNCHANGED <<collision, armature, graph, skin, props, arm_name, arm_bones, dict_names,
                   dict_armatures, err>>
    /\ Resume(<<1>>)

\* The skeleton-only branch of a call
MarkSkeleton ==
    /\ pc = "call"
    /\ todo # << >>
    /\ IsNode(Head(todo))
    /\ SkeletonPath
    /\ LET blk == Head(todo)
           bip == find(blk, "Bip01", "NiNode")
           sr == IF props.version = VER_MORROWIND /\ bip # None THEN bip ELSE blk
           d1 == IF sr \in DOMAIN dict_armatures THEN dict_armatures
                 ELSE DictSet(dict_armatures, sr, << >>)
       IN IF NotANiNode(blk)
          THEN Raise("NifError") /\ UNCHANGED dict_armatures
          ELSE /\ dict_armatures' = populate_bone_tree(d1, sr)
               /\ Resume(Tail(todo))
               /\ UNCHANGED err
    /\ UNCHANGED <<collision, armature, graph, skin, props, arm_name, arm_bones, dict_names, runs>>

\* GEOMETRY_ONLY with no armature yet: identify the selected armature
BindArmature ==
    /\ pc = "call"
    /\ todo # << >>
    /\ IsNode(Head(todo))
    /\ BindPath(dict_armatures)
    /\ \E name \in ArmatureNames :
          /\ arm_name \in {"", name}
          /\ arm_name' = name
          /\ LET sr == find(Head(todo), name, "")
             IN IF ArmatureMissing(sr)
                THEN Raise("NifError") /\ UNCHANGED dict_armatures
                ELSE /\ dict_armatures' = DictSet(dict_armatures, sr, << >>)
                     /\ pc' = "bind"
                     /\ todo' = Tail(todo)
                     /\ niBlock' = Head(todo)
                     /\ skelroot' = sr
                     /\ b_armature_obj' = TRUE
                     /\ visited' = Entered
                     /\ UNCHANGED err
    /\ UNCHANGED <<collision, armature, graph, skin, props, arm_bones, dict_names, runs>>

\* One iteration of the loop over the bones of the selected armature
BindBone ==
    /\ pc = "bind"
    /\ RefsRead < MaxRefs
    /\ \E bone_name \in BoneNames(skelroot) :
          /\ ~In(bone_name, arm_bones)
          /\ arm_bones' = Append(arm_bones, bone_name)
          /\ LET bone_block == find(skelroot, get_bone_name_for_nif(bone_name), "")
                 res == complete_bone_tree(
                            AppendTo(dict_armatures, skelroot, bone_block),
                            bone_block, skelroot)
             IN IF bone_block = None
                THEN UNCHANGED <<dict_names, dict_armatures, pc, todo, niBlock,
                                 skelroot, b_armature_obj, err, visited>>
                ELSE /\ dict_names' = {e \in dict_names : e[1] # bone_block}
                                          \cup {<<bone_block, bone_name>>}
                     /\ dict_armatures' = res.dict
                     /\ IF res.err = "none"
                        THEN UNCHANGED <<pc, todo, niBlock, skelroot,
                                         b_armature_obj, err, visited>>
                        ELSE Raise(res.err)
    /\ UNCHANGED <<collision, armature, graph, skin, props, arm_name, runs>>

\* The loop over skininst.bones: the dict it leaves and the exception that
\* ends it ("none" when it runs to its end)
RECURSIVE skin_bones_loop(_, _, _)
skin_bones_loop(d, bones, sr) ==
    IF bones = << >> THEN [dict |-> d, err |-> "none"]
    ELSE LET boneBlock == Head(bones)
             d1 == IF In(boneBlock, d[sr]) THEN d ELSE AppendTo(d, sr, boneBlock)
             res == complete_bone_tree(d1, boneBlock, sr)
         IN IF boneBlock = None THEN skin_bones_loop(d, Tail(bones), sr)
            ELSE IF res.err # "none" THEN res
            ELSE skin_bones_loop(res.dict, Tail(bones), sr)

\* The skin descriptors geometry blk can turn out to hold
Descriptors(blk) ==
    IF skin[blk].read THEN {skin[blk]}
    ELSE {[read |-> TRUE, skeleton_root |-> sr, bones |-> bl] :
             sr \in NiNodes,
             bl \in SeqsUpTo(NiNodes \cup {None}, MaxRefs - RefsRead)}

\* The rest of the call's body for block blk, once the branches above are
\* passed: the skin instance of a geometry is read and its bones are marked,
\* anything else only leads to the loop over the children.  bound tells
\* whether this call has bound b_armature_obj; rest is what the pending
\* loops still hold.
GeomStep(blk, rest, bound) ==
    IF kind[blk] = "NiTriShape" /\ blk \in skinned
    THEN \E skininst \in Descriptors(blk) :
            /\ skin' = [skin EXCEPT ![blk] = skininst]
            /\ LET sr == skininst.skeleton_root
                   known == sr \in DOMAIN dict_armatures
                   failure ==
                       CASE props.skeleton = "EVERYTHING" -> "none"
                         [] props.skeleton = "GEOMETRY_ONLY" ->
                               IF known THEN "none"
                               ELSE IF bound THEN "NifError"
                               ELSE "UnboundLocalError"
                         [] OTHER -> IF known THEN "none" ELSE "KeyError"
                   d0 == IF known THEN dict_armatures
                         ELSE DictSet(dict_armatures, sr, << >>)
                   res == skin_bones_loop(d0, skininst.bones, sr)
               IN IF failure # "none"
                  THEN UNCHANGED dict_armatures /\ Raise(failure)
                  ELSE IF res.err # "none"
                  THEN dict_armatures' = res.dict /\ Raise(res.err)
                  ELSE /\ dict_armatures' = populate_bone_tree(res.dict, sr)
                       /\ UNCHANGED err
                       /\ Resume(get_refs(blk) \o rest)
    ELSE /\ UNCHANGED <<skin, dict_armatures, err>>
         /\ Resume(get_refs(blk) \o rest)

\* A call that takes neither of the first two branches
Visit ==
    /\ pc = "call"
    /\ todo # << >>
    /\ IsNode(Head(todo))
    /\ ~SkeletonPath
    /\ ~BindPath(dict_armatures)
    /\ GeomStep(Head(todo), Tail(todo), FALSE)
    /\ UNCHANGED <<collision, armature, graph, props, arm_name, arm_bones, dict_names, runs>>

\* The loop over the armature's bones is over: the call goes on
BindEnd ==
    /\ pc = "bind"
    /\ GeomStep(niBlock, todo, TRUE)
    /\ UNCHANGED <<collision, armature, graph, props, arm_name, arm_bones, dict_names, runs>>

Next ==
    \/ Start
    \/ MarkSkeleton
    \/ BindArmature
    \/ BindBone
    \/ BindEnd
    \/ Visit

Spec == Init /\ [][Next]_vars

\* ------------------------------------------------------------ the queries
\* Armature.is_bone(niBlock): False for no block, True when some bone list
\* holds it; the loop that finds nothing falls off the end and returns None
is_bone(d, blk) ==
    IF blk = None THEN "False"
    ELSE IF \E r \in DOMAIN d : In(blk, d[r]) THEN "True"
    ELSE "None"

\* Armature.is_armature_root(niBlock): membership for a NiNode, None for any
\* other block
is_armature_root(d, blk) ==
    IF IsNode(blk) /\ IsNiNode(kind[blk])
    THEN (IF blk \in DOMAIN d THEN "True" ELSE "False")
    ELSE "None"

\* ---------------------------------------------------------- import_armature
\* Lengths count in units of 1/600, head positions in units of 0.01, so that
\* the mean over 1, 2 or 3 children is exact.
HeadUnit == 6          \* one unit of head position, as a length
MinLength == 6         \* 0.01
DefaultLength == 150   \* 0.25
UnitLength == 600      \* length of a bone as import_bone creates it

\* Translations of the bind matrices: position of each node along one axis
Layouts ==
    { <<0, 1, 2, 3, 4, 5>>,
      <<0, 5, 5, 4, 6, 7>>,
      <<0, 1, 1, 2, 2, 3>> }

\* n_block.children: a NiNode has the attribute, a geometry has not
children(b) == SortedSeq(ChildSet(numNodes, parent, b))

\* Armature.import_bone(n_block, b_armature_data, n_armature, b_parent_bone):
\* the edit bones after the call and the exception that ended it.  A bone
\* refers to its parent by the parent's position in edit_bones, 0 for none.
RECURSIVE import_bone(_, _, _, _)
RECURSIVE import_children(_, _, _, _)
import_bone(res, n_block, heads, b_parent_bone) ==
    IF res.err # "none" \/ is_bone(dict_armatures, n_block) # "True" THEN res
    ELSE LET b_edit_bone == [node |-> n_block,
                             parent |-> b_parent_bone,
                             head |-> heads[n_block],
                             length |-> UnitLength]
             bones == Append(res.bones, b_edit_bone)
         IN IF ~IsNiNode(kind[n_block])
            THEN [bones |-> bones, err |-> "AttributeError"]
            ELSE import_children([bones |-> bones, err |-> "none"],
                                 children(n_block), heads, Len(bones))

import_children(res, cs, heads, b_parent_bone) ==
    IF cs = << >> THEN res
    ELSE import_children(import_bone(res, Head(cs), heads, b_parent_bone),
                         Tail(cs), heads, b_parent_bone)

Abs(x) == IF x < 0 THEN -x ELSE x

RECURSIVE SumHeads(_, _)
SumHeads(eb, js) ==
    IF js = {} THEN 0
    ELSE LET j == CHOOSE x \in js : TRUE
         IN eb[j].head + SumHeads(eb, js \ {j})

\* b_edit_bone.children, as positions in edit_bones
BoneChildren(eb, i) == {j \in 1..Len(eb) : eb[j].parent = i}

\* The child offset without the division of childheads
ChildOffset_NoMean(eb, i) ==
    HeadUnit * Abs(eb[i].head - SumHeads(eb, BoneChildren(eb, i)))

\* (b_edit_bone.head - childheads/len(b_edit_bone.children)).length
ChildOffset(eb, i) ==
    LET n == Cardinality(BoneChildren(eb, i))
    IN (HeadUnit * Abs(n * eb[i].head - SumHeads(eb, BoneChildren(eb, i)))) \div n

\* fix_bone_lengths with the test "bone_length <= 0.01"
RECURSIVE fix_loop_AtMost(_, _)
fix_loop_AtMost(eb, i) ==
    IF i > Len(eb) THEN eb
    ELSE IF eb[i].parent = 0 THEN fix_loop_AtMost(eb, i + 1)
    ELSE LET bone_length ==
                 IF BoneChildren(eb, i) # {}
                 THEN (IF ChildOffset(eb, i) <= MinLength THEN DefaultLength
                       ELSE ChildOffset(eb, i))
                 ELSE eb[eb[i].parent].length
         IN fix_loop_AtMost([eb EXCEPT ![i].length = bone_length], i + 1)

\* fix_bone_lengths without the test of b_edit_bone.parent for a bone that
\* has children
RECURSIVE fix_loop_Roots(_, _)
fix_loop_Roots(eb, i) ==
    IF i > Len(eb) THEN eb
    ELSE IF eb[i].parent = 0 /\ BoneChildren(eb, i) = {}
    THEN fix_loop_Roots(eb, i + 1)
    ELSE LET bone_length ==
                 IF BoneChildren(eb, i) # {}
                 THEN (IF ChildOffset(eb, i) < MinLength THEN DefaultLength
                       ELSE ChildOffset(eb, i))
                 ELSE eb[eb[i].parent].length
         IN fix_loop_Roots([eb EXCEPT ![i].length = bone_length], i + 1)

\* Armature.fix_bone_lengths(b_armature_data), from the i-th edit bone on
RECURSIVE fix_loop(_, _)
fix_loop(eb, i) ==
    IF i > Len(eb) THEN eb
    ELSE IF eb[i].parent = 0 THEN fix_loop(eb, i + 1)
    ELSE LET bone_length ==
                 IF BoneChildren(eb, i) # {}
                 THEN (IF ChildOffset(eb, i) < MinLength THEN DefaultLength
                       ELSE ChildOffset(eb, i))
                 ELSE eb[eb[i].parent].length
         IN fix_loop([eb EXCEPT ![i].length = bone_length], i + 1)

fix_bone_lengths(eb) == fix_loop(eb, 1)

\* The edit bones import_armature creates for n_arm, before their lengths are
\* fixed
CreatedBones(n_arm, heads) ==
    import_children([bones |-> << >>, err |-> "none"], children(n_arm), heads, 0)

\* The importer calls import_armature(n_arm) for an armature root, once the
\* bones are marked
ImportArmature ==
    /\ pc = "idle"
    /\ runs >= 1
    /\ n_armature = None
    /\ \E n_arm \in DOMAIN dict_armatures, heads \in Layouts :
          /\ is_armature_root(dict_armatures, n_arm) = "True"
          /\ n_armature' = n_arm
          /\ n_heads' = heads
          /\ LET res == CreatedBones(n_arm, heads)
             IN IF res.err # "none"
                THEN /\ edit_bones' = res.bones
                     /\ err' = res.err
                     /\ pc' = "failed"
                ELSE /\ edit_bones' = fix_bone_lengths(res.bones)
                     /\ UNCHANGED <<err, pc>>
    /\ UNCHANGED <<graph, skin, props, arm_name, arm_bones, dict_names,
                   dict_armatures, todo, niBlock, skelroot, b_armature_obj, runs,
                   visited, collision>>

NextArmature == Next \/ ImportArmature
SpecArmature == Init /\ [][NextArmature]_vars

\* mark_armatures_bones under every setting, on the smaller graphs
InitPolicy == InitFor(AllSettings, PolicyNodes) /\ NoCollision
SpecPolicy == InitPolicy /\ [][Next]_vars

\* ================================================================ claims
Range(s) == {s[i] : i \in 1..Len(s)}

\* A top-level call of mark_armatures_bones has returned
Finished == pc = "idle" /\ runs >= 1

\* The call takes the branch of that policy (and not the skeleton-only one)
Everything == props.skeleton = "EVERYTHING" /\ ~SkeletonPath
GeometryOnly == props.skeleton = "GEOMETRY_ONLY" /\ ~SkeletonPath

\* b lies below r
Below(r, b) == b # r /\ IsAncOrSelf(parent, r, b)

\* The nodes on the parent chain strictly between b and r
Between(b, r) == {a \in 1..numNodes : Below(r, a) /\ Below(a, b)}

\* C1 (as claimed): once mark_armatures_bones has returned, for every root R
\* of dict_armatures and every node B of dict_armatures[R], every node on the
\* parent chain strictly between B and R is in dict_armatures[R] too.
C1_Completeness ==
    Finished =>
        \A r \in DOMAIN dict_armatures :
            \A b \in Range(dict_armatures[r]) :
                (b # None /\ Below(r, b)) =>
                    Between(b, r) \subseteq Range(dict_armatures[r])

\* C2 (as claimed): after a classification pass no node is in the bone lists
\* of two different armature roots.
C2_Partition ==
    Finished =>
        \A r1, r2 \in DOMAIN dict_armatures :
            r1 # r2 =>
                Range(dict_armatures[r1]) \cap Range(dict_armatures[r2]) = {}

\* C3: once a first call of mark_armatures_bones has returned, a second call
\* on the same root never changes dict_armatures (same roots, same bone lists
\* in the same order) and raises nothing.
C3_Idempotent ==
    [][(runs >= 1 /\ (pc = "idle" \/ runs >= 2)) =>
          (dict_armatures' = dict_armatures /\ pc' # "failed")]_vars

C3_Witness ==
    /\ runs = 2
    /\ pc = "idle"
    /\ \E r \in DOMAIN dict_armatures : Len(dict_armatures[r]) >= 2
    /\ \E g \in skinned : skin[g].read /\ skin[g].bones # << >>

\* C4 (as claimed): in every reachable state no bone list of dict_armatures
\* holds a node twice.
C4_DuplicateFree ==
    \A r \in DOMAIN dict_armatures :
        \A i, j \in 1..Len(dict_armatures[r]) :
            i # j => dict_armatures[r][i] # dict_armatures[r][j]

\* The graph of scenario B: G is the one skinned geometry, it lies below S,
\* B1 and P are children of S, B2 is a child of P, and S has no other NiNode
\* below it.
ScenarioBGraph(S, B1, B2, P, G) ==
    /\ Cardinality({S, B1, B2, P, G}) = 5
    /\ skinned = {G}
    /\ Below(S, G)
    /\ parent[B1] = S
    /\ parent[B2] = P
    /\ parent[P] = S
    /\ {b \in NiNodes : Below(S, b)} = {B1, B2, P}

\* Scenario B: that graph, where the skin of G has skeleton root S and the
\* bone list [B1, B2].
ScenarioB(S, B1, B2, P, G) ==
    /\ ScenarioBGraph(S, B1, B2, P, G)
    /\ skin[G] = [read |-> TRUE, skeleton_root |-> S, bones |-> <<B1, B2>>]

\* The nodes of scenario B, read off the state: the one skinned geometry, its
\* skeleton root, its two bones and the parent of the second
TheSkin == CHOOSE g \in skinned : TRUE
InScenarioB ==
    /\ Cardinality(skinned) = 1
    /\ Len(skin[TheSkin].bones) = 2
    /\ skin[TheSkin].bones[1] \in 1..numNodes
    /\ skin[TheSkin].bones[2] \in 1..numNodes
    /\ parent[skin[TheSkin].bones[2]] \in 1..numNodes
    /\ ScenarioB(skin[TheSkin].skeleton_root,
                 skin[TheSkin].bones[1],
                 skin[TheSkin].bones[2],
                 parent[skin[TheSkin].bones[2]],
                 TheSkin)

\* C5 (as claimed): under policy EVERYTHING, whatever the file, a graph of
\* scenario B yields dict_armatures = {S: [B1, B2, P]}; a skin that the call
\* never read can be the one of the scenario.
C5_ScenarioB_AnyFile ==
    (props.skeleton = "EVERYTHING" /\ Finished /\ Cardinality(skinned) = 1) =>
        \A S, B1, B2, P \in 1..numNodes :
            (/\ ScenarioBGraph(S, B1, B2, P, TheSkin)
             /\ skin[TheSkin] \in
                    {NoSkin,
                     [read |-> TRUE, skeleton_root |-> S, bones |-> <<B1, B2>>]})
            => dict_armatures = [r \in {S} |-> <<B1, B2, P>>]

\* C5 (amended): under policy EVERYTHING, when the file is not taken as a
\* skeleton file, scenario B yields dict_armatures = {S: [B1, B2, P]}, in
\* that order.
C5_ScenarioB ==
    (Everything /\ Finished /\ InScenarioB) =>
        dict_armatures =
            [r \in {skin[TheSkin].skeleton_root} |->
                <<skin[TheSkin].bones[1],
                  skin[TheSkin].bones[2],
                  parent[skin[TheSkin].bones[2]]>>]

C5_Witness ==
    /\ Everything
    /\ Finished
    /\ InScenarioB

\* Scenario A: SKELETON_ONLY, the graph root is a plain NiNode and no geometry
\* has a skin.
ScenarioA ==
    /\ props.skeleton = "SKELETON_ONLY"
    /\ kind[1] = "NiNode"
    /\ skinned = {}
    /\ Finished

\* C6 (as claimed): in scenario A the graph root is the one armature root and
\* its bones are all the plain NiNodes below it.
C6_ScenarioA_AllNodes ==
    ScenarioA =>
        /\ DOMAIN dict_armatures = {1}
        /\ Range(dict_armatures[1])
              = {b \in 1..numNodes : Below(1, b) /\ kind[b] = "NiNode"}

\* The armature root the skeleton-only branch is to select: for version
\* 0x04000002 the NiNode named Bip01 when the graph has one, the graph root
\* otherwise.
ExpectedSkeletonRoot ==
    LET bip == {b \in NiNodes : NodeName(b) = "Bip01"}
    IN IF props.version = VER_MORROWIND /\ bip # {}
       THEN CHOOSE b \in bip : TRUE
       ELSE 1

\* C6 (amended): in scenario A there is one armature root, the graph root (for
\* version 0x04000002 the NiNode named Bip01, if there is one), and its bones
\* are the plain NiNodes below it that are no grouping nodes.
C6_ScenarioA ==
    ScenarioA =>
        /\ DOMAIN dict_armatures = {ExpectedSkeletonRoot}
        /\ Range(dict_armatures[ExpectedSkeletonRoot])
              = {b \in 1..numNodes :
                    /\ Below(ExpectedSkeletonRoot, b)
                    /\ kind[b] = "NiNode"
                    /\ b \notin grouping}

C6_Witness ==
    /\ ScenarioA
    /\ grouping # {}
    /\ \E b \in 1..numNodes : kind[b] = "NiLODNode"
    /\ \E r \in DOMAIN dict_armatures : Len(dict_armatures[r]) >= 2

\* C7 (as claimed): under policy GEOMETRY_ONLY, whatever the file, once the
\* call has ended, for every name the selected armature can have that matches
\* no node of the graph, classification has failed with NifError and has
\* registered no armature root; a name that the call never read can be any.
C7_NoSuchArmature_AnyFile ==
    (props.skeleton = "GEOMETRY_ONLY" /\ runs >= 1 /\ pc \in {"idle", "failed"}) =>
        \A name \in ArmatureNames :
            (/\ arm_name \in {"", name}
             /\ \A b \in 1..numNodes : NodeName(b) # name) =>
                (pc = "failed" /\ err = "NifError" /\ DOMAIN dict_armatures = {})

\* C7 (amended): under policy GEOMETRY_ONLY, when the file is not taken as a
\* skeleton file and the name of the selected armature matches no node of the
\* graph, classification fails with NifError and registers no armature root.
C7_NoSuchArmature ==
    (/\ GeometryOnly
     /\ arm_name # ""
     /\ \A b \in 1..numNodes : NodeName(b) # arm_name) =>
        (pc = "failed" /\ err = "NifError" /\ DOMAIN dict_armatures = {})

C7_Witness ==
    /\ GeometryOnly
    /\ arm_name = "Armature"
    /\ numNodes >= 3
    /\ pc = "failed"

\* C8 (as claimed): under GEOMETRY_ONLY, whenever the traversal has read a
\* skinned geometry whose skeleton root is not a registered armature,
\* classification has failed with NifError.
C8_IncompatibleSkeleton ==
    GeometryOnly =>
        \A g \in skinned :
            (skin[g].read /\ skin[g].skeleton_root \notin DOMAIN dict_armatures) =>
                (pc = "failed" /\ err = "NifError")

\* C9: under SKELETON_ONLY, when the root passed is no NiNode, classification
\* fails with NifError and dict_armatures stays as it was (empty).
C9_RootNotNiNode ==
    (/\ props.skeleton = "SKELETON_ONLY"
     /\ kind[1] = "NiTriShape"
     /\ runs >= 1
     /\ pc # "call") =>
        (pc = "failed" /\ err = "NifError" /\ dict_armatures = EmptyDict)

C9_Witness ==
    /\ props.skeleton = "SKELETON_ONLY"
    /\ kind[1] = "NiTriShape"
    /\ pc = "failed"

\* C10 (as claimed): under EVERYTHING, for every skinned geometry visited, its
\* skeleton root is a key of dict_armatures, every non-null entry of its bone
\* list is in that root's bone list, no null entry is registered and nothing
\* is raised.
C10_SkinBonesRegistered ==
    Everything =>
        \A g \in skinned :
            skin[g].read =>
                /\ skin[g].skeleton_root \in DOMAIN dict_armatures
                /\ \A b \in Range(skin[g].bones) :
                      b # None => In(b, dict_armatures[skin[g].skeleton_root])
                /\ ~In(None, dict_armatures[skin[g].skeleton_root])
                /\ err = "none"

\* C11 (as claimed): once mark_armatures_bones has returned, no NiLODNode and
\* no grouping node is in any bone list of dict_armatures.
C11_NoLodOrGrouping ==
    Finished =>
        \A r \in DOMAIN dict_armatures :
            \A b \in Range(dict_armatures[r]) :
                b # None => (kind[b] # "NiLODNode" /\ ~is_grouping_node(b))

\* C12 (as claimed): whenever mark_armatures_bones ends by raising the
\* structural error, dict_armatures is as it was before the call.  A call that
\* raises is the first one (nothing is called after a failure), so that value
\* is the empty dict.  The raise for an incompatible skeleton, lines 211-216,
\* ends as UnboundLocalError when it is met in a recursive call.
C12_AllOrNothing ==
    (pc = "failed" /\ err \in {"NifError", "UnboundLocalError"}) =>
        dict_armatures = EmptyDict

\* C13 (as claimed): import_bone creates an edit bone only for a node that is
\* registered as a bone under the armature root it is given: every edit bone
\* of the armature imported for n_armature is of a node of
\* dict_armatures[n_armature].
C13_OnlyBonesOfArmature ==
    n_armature # None =>
        \A i \in 1..Len(edit_bones) :
            In(edit_bones[i].node, dict_armatures[n_armature])

\* import_armature(n_armature) has returned
Imported == n_armature # None /\ pc = "idle"

\* C14: after fix_bone_lengths, a bone with a parent and no bone children has
\* the length its parent has after the pass; a bone with a parent and bone
\* children has length 0.25 when its computed child offset is below 0.01,
\* and keeps the computed length when that is 0.01 or more.
C14_LengthFallback ==
    Imported =>
        \A i \in 1..Len(edit_bones) :
            edit_bones[i].parent # 0 =>
                IF BoneChildren(edit_bones, i) = {}
                THEN edit_bones[i].length
                        = edit_bones[edit_bones[i].parent].length
                ELSE /\ ChildOffset(edit_bones, i) < MinLength
                            => edit_bones[i].length = DefaultLength
                     /\ ChildOffset(edit_bones, i) >= MinLength
                            => edit_bones[i].length = ChildOffset(edit_bones, i)

C14_Witness ==
    /\ Imported
    /\ \E i \in 1..Len(edit_bones) :
          /\ edit_bones[i].parent # 0
          /\ BoneChildren(edit_bones, i) = {}
          /\ edit_bones[i].length = DefaultLength
    /\ \E i \in 1..Len(edit_bones) :
          /\ edit_bones[i].parent # 0
          /\ BoneChildren(edit_bones, i) # {}
          /\ ChildOffset(edit_bones, i) = MinLength

\* C15: fix_bone_lengths never changes a root bone: every edit bone without
\* a parent is as import_bone created it.
C15_RootBonesUnchanged ==
    Imported =>
        \A i \in 1..Len(edit_bones) :
            edit_bones[i].parent = 0 =>
                edit_bones[i] = CreatedBones(n_armature, n_heads).bones[i]

C15_Witness ==
    /\ Imported
    /\ \E i \in 1..Len(edit_bones) :
          /\ edit_bones[i].parent = 0
          /\ BoneChildren(edit_bones, i) # {}
          /\ ChildOffset(edit_bones, i) # UnitLength
    /\ \E i \in 1..Len(edit_bones) :
          edit_bones[i].parent # 0 /\ edit_bones[i].length # UnitLength

\* C16 (as claimed): under EVERYTHING, when a skin bone list names a node
\* that is not in the tree of the skeleton root, that entry is skipped: it is
\* not registered and no exception ends the classification.
C16_UnresolvableBoneSkipped ==
    Everything =>
        \A g \in skinned :
            skin[g].read =>
                \A b \in Range(skin[g].bones) :
                    (b # None /\ ~IsAncOrSelf(parent, skin[g].skeleton_root, b)) =>
                        /\ pc # "failed"
                        /\ ~In(b, dict_armatures[skin[g].skeleton_root])

\* C17 (as claimed): once mark_armatures_bones has returned, every node of
\* dict_armatures[R] lies below R, and no other key of dict_armatures is on
\* the parent chain between the node and R.
C17_Reachability ==
    Finished =>
        \A r \in DOMAIN dict_armatures :
            \A b \in Range(dict_armatures[r]) :
                /\ b # None
                /\ Below(r, b)
                /\ Between(b, r) \cap DOMAIN dict_armatures = {}

\* C18 (as claimed): in every state, is_bone(n) is true exactly when n is a
\* block in the bone list of some root, and is_armature_root(n) is true
\* exactly when n is a key of dict_armatures.
C18_Queries ==
    \A n \in 0..numNodes :
        /\ is_bone(dict_armatures, n) = "True"
              <=> (n # None /\ \E r \in DOMAIN dict_armatures :
                                  n \in Range(dict_armatures[r]))
        /\ is_armature_root(dict_armatures, n) = "True"
              <=> n \in DOMAIN dict_armatures

\* The mean of the distances from the head of the i-th bone to the heads of
\* its children
RECURSIVE SumDistances(_, _, _)
SumDistances(eb, i, js) ==
    IF js = {} THEN 0
    ELSE LET j == CHOOSE x \in js : TRUE
         IN Abs(eb[i].head - eb[j].head) + SumDistances(eb, i, js \ {j})

MeanChildDistance(eb, i) ==
    (HeadUnit * SumDistances(eb, i, BoneChildren(eb, i)))
        \div Cardinality(BoneChildren(eb, i))

\* C19 (as claimed): a bone with a parent and bone children gets as length
\* the mean of the distances from its head to the heads of its children
\* (0.25 when that is below 0.01).
C19_MeanChildDistance ==
    Imported =>
        \A i \in 1..Len(edit_bones) :
            (edit_bones[i].parent # 0 /\ BoneChildren(edit_bones, i) # {}) =>
                edit_bones[i].length =
                    IF MeanChildDistance(edit_bones, i) < MinLength
                    THEN DefaultLength
                    ELSE MeanChildDistance(edit_bones, i)

\* C19 (amended): a bone with a parent and n bone children gets as length the
\* distance from its head to the mean of the heads of its children (0.25
\* when that is below 0.01).
C19_DistanceToMeanHead ==
    Imported =>
        \A i \in 1..Len(edit_bones) :
            (edit_bones[i].parent # 0 /\ BoneChildren(edit_bones, i) # {}) =>
                LET n == Cardinality(BoneChildren(edit_bones, i))
                    off == HeadUnit * Abs(n * edit_bones[i].head
                               - SumHeads(edit_bones, BoneChildren(edit_bones, i)))
                IN IF off < n * MinLength
                   THEN edit_bones[i].length = DefaultLength
                   ELSE n * edit_bones[i].length = off

C19_Witness ==
    /\ Imported
    /\ \E i \in 1..Len(edit_bones) :
          /\ edit_bones[i].parent # 0
          /\ Cardinality(BoneChildren(edit_bones, i)) = 2
          /\ edit_bones[i].length = ChildOffset(edit_bones, i)
          /\ edit_bones[i].length # DefaultLength

\* C20 (as claimed): in every state reachable during classification, no key
\* R of dict_armatures is in dict_armatures[R], and neither is an ancestor of
\* R nor the null that ends the parent chain.
C20_RootNotOwnBone ==
    \A r \in DOMAIN dict_armatures :
        \A b \in Range(dict_armatures[r]) :
            b # None /\ ~IsAncOrSelf(parent, b, r)

\* C23 (as claimed): import_armature(R) creates one edit bone for every node
\* of dict_armatures[R], and the parent of each edit bone is the edit bone of
\* the node's parent node, none when that parent is R.
C23_EditBonePerBone ==
    Imported =>
        /\ \A b \in Range(dict_armatures[n_armature]) :
              Cardinality({i \in 1..Len(edit_bones) : edit_bones[i].node = b}) = 1
        /\ \A i \in 1..Len(edit_bones) :
              IF parent[edit_bones[i].node] = n_armature
              THEN edit_bones[i].parent = 0
              ELSE /\ edit_bones[i].parent # 0
                   /\ edit_bones[edit_bones[i].parent].node
                         = parent[edit_bones[i].node]

\* The spatial nodes reachable from the root through spatial children, depth
\* first in child order
IsSpatial(b) == b \in 1..numNodes
SpatialPreorder == SelectSeq(tree(1), IsSpatial)

\* The top-level call is over
Ended == runs >= 1 /\ pc \in {"idle", "failed"}

\* C21 (as claimed): under EVERYTHING, when the traversal is over,
\* mark_armatures_bones has been called on every spatial node reachable from
\* the root, depth first in child order, once each, and on no other block.
C21_Traversal ==
    (Everything /\ Ended) => visited = SpatialPreorder

\* The file is an Oblivion or Fallout 3 skeleton, as the claim words it
SkeletonFile ==
    /\ props.version \in {335544325, 335675399}
    /\ props.filepath \in {"meshes/Skeleton.NIF", "skeletonbeast.nif"}

\* What the skeleton-only path leaves: no skin descriptor read, no armature
\* looked up, no call but the one on the root, and either one armature root
\* with the whole of its subtree or the error for a root that is no NiNode
SkeletonOnlyRun ==
    /\ arm_name = ""
    /\ \A g \in skinned : ~skin[g].read
    /\ visited = <<1>>
    /\ IF pc = "idle"
       THEN /\ DOMAIN dict_armatures = {ExpectedSkeletonRoot}
            /\ Range(dict_armatures[ExpectedSkeletonRoot])
                  = {b \in 1..numNodes :
                        /\ Below(ExpectedSkeletonRoot, b)
                        /\ kind[b] = "NiNode"
                        /\ b \notin grouping}
       ELSE err = "NifError" /\ dict_armatures = EmptyDict

\* C22: once the top-level call is over, it has taken the skeleton-only path
\* exactly when the policy is SKELETON_ONLY or the file is an Oblivion or
\* Fallout 3 skeleton; so under EVERYTHING and GEOMETRY_ONLY with such a file
\* no skin descriptor is read and no armature is looked up.
C22_PolicySelection ==
    Ended =>
        (SkeletonOnlyRun <=> (props.skeleton = "SKELETON_ONLY" \/ SkeletonFile))

C22_Witness ==
    /\ Ended
    /\ props.skeleton = "GEOMETRY_ONLY"
    /\ SkeletonFile
    /\ skinned # {}
    /\ pc = "idle"
    /\ Len(dict_armatures[1]) >= 1


\* ------------------------------------------------------ collision shapes
MaxSubShapes == 2      \* longest sub_shapes / strips_data list of a shape

\* A shape block: its class, the shapes it refers to (shape, sub_shapes or
\* strips_data), and for a packed shape len(sub_shapes), len(data.sub_shapes)
Block(t, subs) == [type |-> t, subs |-> subs, n |-> 0, m |-> 0]
Packed(n, m) ==
    [type |-> "bhkPackedNiTriStripsShape", subs |-> << >>, n |-> n, m |-> m]

\* Classes with an importer of their own that build one object, and a havok
\* class the isinstance chain does not know
SimpleTypes ==
    {"bhkBoxShape", "bhkSphereShape", "bhkCapsuleShape",
     "bhkConvexVerticesShape"}
WrapperTypes == {"bhkTransformShape", "bhkRigidBody", "bhkMoppBvTreeShape"}
UnsupportedType == "bhkPlaneShape"

PackedShapes ==
    {Packed(n, m) : n \in 0..MaxSubShapes, m \in 0..MaxSubShapes}
LeafShapes ==
    {Block(t, << >>) : t \in SimpleTypes \cup {UnsupportedType}}
        \cup PackedShapes
StripsShapes ==
    {Block("bhkNiTriStripsShape", q) :
        q \in SeqsUpTo({Block("NiTriStripsData", << >>)}, MaxSubShapes)}
ListMembers ==
    {Block("bhkBoxShape", << >>), Block("bhkSphereShape", << >>),
     Block(UnsupportedType, << >>), Packed(0, 0), Packed(1, 0),
     Block("bhkListShape", << >>),
     Block("bhkNiTriStripsShape", <<Block("NiTriStripsData", << >>)>>)}
ListShapes ==
    {Block("bhkListShape", q) : q \in SeqsUpTo(ListMembers, MaxSubShapes)}
Wrapped(S) == {Block(t, <<x>>) : t \in WrapperTypes, x \in S}

\* The shapes import_bhk_shape is given: the ones above, a strips data block
\* on its own, and a wrapper or two around any of them
InnerShapes ==
    LeafShapes \cup StripsShapes \cup ListShapes
        \cup {Block("NiTriStripsData", << >>)}
Shapes == InnerShapes \cup Wrapped(InnerShapes) \cup Wrapped(Wrapped(LeafShapes))

\* data._user_version_value_ and data._user_version_2_value_ of the file
UserVersions == {<<0, 0>>, <<11, 34>>, <<12, 34>>, <<12, 83>>}
Materials == {"unset", "HAV_MAT_STONE"}

\* The object mesh_from_data / box_from_extents builds, and the scale applied
\* to its vertices
Obj(name, scale) == [name |-> name, scale |-> scale]
PolyName(i) == <<"poly0", "poly1", "poly2", "poly3">>[i + 1]

Returns(objs, st) == [objs |-> objs, err |-> "none", st |-> st]
Raises(e, st) == [objs |-> << >>, err |-> e, st |-> st]

\* import_bhkbox_shape, import_bhksphere_shape, import_bhkcapsule_shape,
\* import_bhkconvex_vertices_shape: one object, scaled by HAVOK_SCALE
import_simple(shape, st) ==
    LET name == CASE shape.type = "bhkBoxShape" -> "box"
                  [] shape.type = "bhkSphereShape" -> "sphere"
                  [] shape.type = "bhkCapsuleShape" -> "capsule"
                  [] OTHER -> "convexpoly"
    IN Returns(<<Obj(name, st.scale)>>, st)

\* import_nitristrips: one unscaled "poly", whose material is read from
\* self.havok_mat, an attribute only the bhkNiTriStripsShape branch assigns
import_nitristrips(shape, st) ==
    IF st.mat = "unset" THEN Raises("AttributeError", st)
    ELSE Returns(<<Obj("poly", 1)>>, st)

\* import_bhkpackednitristrips_shape: sub_shapes, or data.sub_shapes when
\* there are none; the loop body reads b_mesh, a name bound nowhere, after
\* it has built the first mesh
import_bhkpackednitristrips_shape(shape, st) ==
    LET subshapes == IF shape.n # 0 THEN shape.n ELSE shape.m
    IN IF subshapes = 0 THEN Returns(<< >>, st)
       ELSE Raises("NameError", st)

\* self.HAVOK_SCALE after the test of the user versions
ScaleFor(uv, scale) ==
    IF uv[1] = 12 THEN (IF uv[2] = 83 THEN 10 ELSE 1) ELSE scale

\* dict_havok_objects[bhkshape] = collision_objs
SetItem(d, k, v) == {p \in d : p[1] # k} \cup {<<k, v>>}

RECURSIVE import_bhk_shape(_, _)
RECURSIVE reduce_add(_, _, _)
\* reduce(operator.add, (import_bhk_shape(x) for x in shapes)) after its
\* first item: the lists are added in order, an exception ends the fold
reduce_add(acc, shapes, st) ==
    IF shapes = << >> THEN Returns(acc, st)
    ELSE LET r == import_bhk_shape(Head(shapes), st)
         IN IF r.err # "none" THEN r
            ELSE reduce_add(acc \o r.objs, Tail(shapes), r.st)

\* reduce without an initial value raises TypeError on an empty iterable
reduce(shapes, st) ==
    IF shapes = << >> THEN Raises("TypeError", st)
    ELSE reduce_add(<< >>, shapes, st)

import_bhk_shape(shape, st0) ==
    LET st == [st0 EXCEPT !.scale = ScaleFor(st0.uv, @)]
        t == shape.type
    IN CASE t \in {"bhkTransformShape", "bhkMoppBvTreeShape"} ->
                import_bhk_shape(shape.subs[1], st)
         [] t = "bhkRigidBody" ->
                LET r == import_bhk_shape(shape.subs[1], st)
                IN IF r.err # "none" THEN r
                   ELSE [r EXCEPT !.st.havok = SetItem(@, shape, r.objs)]
         [] t \in SimpleTypes -> import_simple(shape, st)
         [] t = "bhkPackedNiTriStripsShape" ->
                import_bhkpackednitristrips_shape(shape, st)
         [] t = "bhkNiTriStripsShape" ->
                reduce(shape.subs, [st EXCEPT !.mat = "HAV_MAT_STONE"])
         [] t = "NiTriStripsData" -> import_nitristrips(shape, st)
         [] t = "bhkListShape" -> reduce(shape.subs, st)
         [] OTHER -> Returns(<< >>, st)

\* One call of import_bhk_shape on the shape of the file
ImportBhkShape ==
    /\ hk_pc = "idle"
    /\ LET r == import_bhk_shape(bhkshape,
                    [mat |-> havok_mat, havok |-> dict_havok_objects,
                     scale |-> HAVOK_SCALE, uv |-> user_version])
       IN /\ hk_objects' = r.objs
          /\ hk_err' = r.err
          /\ hk_pc' = IF r.err = "none" THEN "done" ELSE "failed"
          /\ havok_mat' = r.st.mat
          /\ HAVOK_SCALE' = r.st.scale
          /\ dict_havok_objects' = r.st.havok
    /\ UNCHANGED <<bhkshape, user_version, armature, graph, skin, props,
                   arm_name, arm_bones, dict_names, dict_armatures, pc, todo,
                   niBlock, skelroot, b_armature_obj, err, runs, visited>>

\* A file with one node and a collision shape; havok_mat is unset, or left
\* by the import of an earlier bhkNiTriStripsShape
InitCollision ==
    /\ InitFor(Settings, 1)
    /\ bhkshape \in Shapes
    /\ user_version \in UserVersions
    /\ HAVOK_SCALE = 1
    /\ havok_mat \in Materials
    /\ dict_havok_objects = {}
    /\ hk_objects = << >>
    /\ hk_err = "none"
    /\ hk_pc = "idle"

NextCollision == ImportBhkShape
SpecCollision == InitCollision /\ [][NextCollision]_vars


\* ------------------------------------------------------------------- C24
\* The list the claim describes for a shape: one object for a simple shape
\* and a strips data block, one per sub-shape for a packed shape, the
\* concatenation in order for a container (empty for an empty one), the
\* inner shape's list for a wrapper, the empty list for an unsupported class
RECURSIVE ClaimedNames(_)
RECURSIVE ClaimedConcat(_)
ClaimedConcat(shapes) ==
    IF shapes = << >> THEN << >>
    ELSE ClaimedNames(Head(shapes)) \o ClaimedConcat(Tail(shapes))
ClaimedNames(shape) ==
    CASE shape.type \in WrapperTypes -> ClaimedNames(shape.subs[1])
      [] shape.type \in {"bhkListShape", "bhkNiTriStripsShape"} ->
             ClaimedConcat(shape.subs)
      [] shape.type = "bhkPackedNiTriStripsShape" ->
             [i \in 1..(IF shape.n # 0 THEN shape.n ELSE shape.m) |->
                 PolyName(i - 1)]
      [] shape.type = "NiTriStripsData" -> <<"poly">>
      [] shape.type \in SimpleTypes ->
             <<import_simple(shape, [scale |-> 1]).objs[1].name>>
      [] OTHER -> << >>

\* A strips data block that is not inside a bhkNiTriStripsShape
RECURSIVE StripsDataOutside(_)
StripsDataOutside(shape) ==
    CASE shape.type = "NiTriStripsData" -> TRUE
      [] shape.type = "bhkNiTriStripsShape" -> FALSE
      [] OTHER -> \E i \in DOMAIN shape.subs : StripsDataOutside(shape.subs[i])

WellFormed == ~StripsDataOutside(bhkshape)
ImportedShape == hk_pc # "idle"
ReturnedNames == [i \in DOMAIN hk_objects |-> hk_objects[i].name]

\* C24 (as claimed): import_bhk_shape never raises on a well-formed shape and
\* returns the list claimed for it: the concatenation in order for a
\* container, the empty list for an empty container, one object per
\* sub-shape for a packed shape, the empty list for an unsupported class.
C24_ListForEveryShape ==
    (ImportedShape /\ WellFormed) =>
        (hk_err = "none" /\ ReturnedNames = ClaimedNames(bhkshape))
====
